---- MODULE Spec2Model ----
(***************************************************************************)
(* The multi-expert advisory engine of src/advisory.py (AdvisoryEngine):   *)
(* five expert evaluators, the consensus aggregator, position sizing,      *)
(* stop-loss / take-profit, and the ranker (analyze_all, get_top_picks,    *)
(* get_category_leaders).                                                  *)
(*                                                                         *)
(* Numbers.  A reading's numeric fields are integers.  Two fields are held *)
(* in a finer unit so that the values the source uses stay integral:       *)
(*   daily_change_pct            tenths of a percent   (25 is +2.5%)       *)
(*   bb_upper, bb_lower          hundredths of a price unit                *)
(* A quotient the source computes is kept as an exact fraction             *)
(* [num, den]; den = 0 is Python's ZeroDivisionError.  The consensus score *)
(* is the IEEE-754 double the source computes, held exactly as             *)
(* whole + eps * 2^-60.                                                    *)
(***************************************************************************)
EXTENDS Integers, Sequences, FiniteSets, TLC

(***************************************************************************)
(* SignalStrength (advisory.py 10-21): the six levels and their scores.    *)
(***************************************************************************)
SignalStrength == {"STRONG_BUY", "BUY", "WEAK_BUY", "HOLD", "WEAK_SELL", "SELL"}

SignalScore(s) ==
    CASE s = "STRONG_BUY" -> 5
      [] s = "BUY"        -> 4
      [] s = "WEAK_BUY"   -> 3
      [] s = "HOLD"       -> 2
      [] s = "WEAK_SELL"  -> 1
      [] s = "SELL"       -> 0

(***************************************************************************)
(* Python values the model needs: None, the empty dict, a raised           *)
(* ZeroDivisionError, dict.get with a default.                             *)
(***************************************************************************)
None == [py |-> "None"]
ZeroDivisionError == [py |-> "ZeroDivisionError"]
EmptyReading == [f \in {} |-> 0]

\* bool(data): a dict is truthy iff it has a key; None is falsy.
Truthy(dict) == dict # None /\ DOMAIN dict # {}

\* data.get(f, default)
Get(dict, f, default) == IF f \in DOMAIN dict THEN dict[f] ELSE default

\* a / b and (a / b) * 100 in exact arithmetic; b = 0 raises ZeroDivisionError.
Div(a, b) == [num |-> a, den |-> b]
Pct(a, b) == [num |-> a * 100, den |-> b]
Raises(r) == r.den = 0
\* a fraction compared with the integer c
RatLT(r, c) == IF r.den > 0 THEN r.num < c * r.den ELSE r.num > c * r.den
RatGT(r, c) == IF r.den > 0 THEN r.num > c * r.den ELSE r.num < c * r.den

\* The element of a one-element set.  The({e(v) : v \in {x}}) is e(x) with x
\* evaluated once, where a LET definition is evaluated at each of its uses.
The(S) == CHOOSE x \in S : TRUE

Abs(x) == IF x < 0 THEN -x ELSE x
Max(a, b) == IF a >= b THEN a ELSE b


(***************************************************************************)
(* Expert 1, _trend_analysis (advisory.py 197-226).  The reasoning string  *)
(* is kept as the sequence of its parts: the branch taken and, when the    *)
(* 120-period average is usable, the appended note.                        *)
(***************************************************************************)
\* price > ma50 tested before the two alignments
trend_base_above_ma50_first(price, ma10, ma50, change_1d) ==
    IF price > ma50
    THEN [signal |-> "WEAK_BUY", reasoning |-> <<"above_ma50">>]
    ELSE IF price > ma10 /\ ma10 > ma50 /\ change_1d > 0
    THEN [signal |-> "BUY", reasoning |-> <<"bullish_alignment">>]
    ELSE IF price < ma10 /\ ma10 < ma50 /\ change_1d < 0
    THEN [signal |-> "SELL", reasoning |-> <<"bearish_alignment">>]
    ELSE [signal |-> "HOLD", reasoning |-> <<"trend_unclear">>]

trend_base(price, ma10, ma50, change_1d) ==
    IF price > ma10 /\ ma10 > ma50 /\ change_1d > 0
    THEN [signal |-> "BUY", reasoning |-> <<"bullish_alignment">>]
    ELSE IF price < ma10 /\ ma10 < ma50 /\ change_1d < 0
    THEN [signal |-> "SELL", reasoning |-> <<"bearish_alignment">>]
    ELSE IF price > ma50
    THEN [signal |-> "WEAK_BUY", reasoning |-> <<"above_ma50">>]
    ELSE [signal |-> "HOLD", reasoning |-> <<"trend_unclear">>]

\* line 217: if ma_120 and ma_120 != 0
ma_120_usable(ma_120) == ma_120 # 0

\* the expert with the 120-period average deciding the signal as well as
\* the note
trend_analysis_120sma_votes(price, ma10, ma50, change_1d, ma_120) ==
    IF ma50 = 0
    THEN [signal |-> "HOLD", reasoning |-> <<"insufficient_data">>]
    ELSE LET base == trend_base(price, ma10, ma50, change_1d)
             dist_120 == Pct(price - ma_120, ma_120)
             note == IF RatGT(dist_120, 5) THEN "above_120sma"
                     ELSE IF RatLT(dist_120, -5) THEN "below_120sma"
                     ELSE "near_120sma"
         IN  IF ma_120_usable(ma_120)
             THEN IF Raises(dist_120) THEN ZeroDivisionError
                  ELSE [signal |-> IF note = "below_120sma" THEN "HOLD" ELSE base.signal,
                        reasoning |-> Append(base.reasoning, note)]
             ELSE base

trend_analysis(price, ma10, ma50, change_1d, ma_120) ==
    IF ma50 = 0
    THEN [signal |-> "HOLD", reasoning |-> <<"insufficient_data">>]
    ELSE LET base == trend_base(price, ma10, ma50, change_1d)
             dist_120 == Pct(price - ma_120, ma_120)
             note == IF RatGT(dist_120, 5) THEN "above_120sma"
                     ELSE IF RatLT(dist_120, -5) THEN "below_120sma"
                     ELSE "near_120sma"
         IN  IF ma_120_usable(ma_120)
             THEN IF Raises(dist_120) THEN ZeroDivisionError
                  ELSE [signal |-> base.signal,
                        reasoning |-> Append(base.reasoning, note)]
             ELSE base

(***************************************************************************)
(* Expert 2, _mean_reversion_analysis (advisory.py 228-241).               *)
(***************************************************************************)
dist_to_ma(price, ma50) == IF ma50 # 0 THEN Pct(price - ma50, ma50) ELSE Div(0, 1)

\* the two range-position rules tested before the two distance rules
mean_reversion_analysis_range_first(price, ma50, rsi, week_position, change_1d) ==
    LET dist == dist_to_ma(price, ma50)
    IN  IF Raises(dist) THEN ZeroDivisionError
        ELSE IF rsi < 40 /\ RatLT(week_position, 30)
        THEN [signal |-> "BUY", reasoning |-> <<"near_oversold">>]
        ELSE IF rsi > 60 /\ RatGT(week_position, 70)
        THEN [signal |-> "WEAK_SELL", reasoning |-> <<"near_overbought">>]
        ELSE IF rsi < 30 /\ RatLT(dist, -5)
        THEN [signal |-> "STRONG_BUY", reasoning |-> <<"oversold">>]
        ELSE IF rsi > 70 /\ RatGT(dist, 5)
        THEN [signal |-> "SELL", reasoning |-> <<"overbought">>]
        ELSE [signal |-> "HOLD", reasoning |-> <<"rsi_neutral">>]

mean_reversion_analysis(price, ma50, rsi, week_position, change_1d) ==
    LET dist == dist_to_ma(price, ma50)
    IN  IF Raises(dist) THEN ZeroDivisionError
        ELSE IF rsi < 30 /\ RatLT(dist, -5)
        THEN [signal |-> "STRONG_BUY", reasoning |-> <<"oversold">>]
        ELSE IF rsi > 70 /\ RatGT(dist, 5)
        THEN [signal |-> "SELL", reasoning |-> <<"overbought">>]
        ELSE IF rsi < 40 /\ RatLT(week_position, 30)
        THEN [signal |-> "BUY", reasoning |-> <<"near_oversold">>]
        ELSE IF rsi > 60 /\ RatGT(week_position, 70)
        THEN [signal |-> "WEAK_SELL", reasoning |-> <<"near_overbought">>]
        ELSE [signal |-> "HOLD", reasoning |-> <<"rsi_neutral">>]

(***************************************************************************)
(* Expert 3, _momentum_analysis (advisory.py 243-252).                     *)
(***************************************************************************)
\* the expert with the rsi test of its first branch left out
momentum_analysis_any_rsi(ytd, change_1d, rsi, volatility) ==
    IF ytd > 15 /\ change_1d > 0
    THEN [signal |-> "BUY", reasoning |-> <<"strong_momentum">>]
    ELSE IF ytd < -10 /\ change_1d < 0
    THEN [signal |-> "WEAK_SELL", reasoning |-> <<"weakness_persists">>]
    ELSE IF Abs(ytd) < 5 /\ volatility < 15
    THEN [signal |-> "WEAK_BUY", reasoning |-> <<"low_vol_consolidation">>]
    ELSE [signal |-> "HOLD", reasoning |-> <<"momentum_neutral">>]

\* the consolidation rule on ytd < 5 instead of abs(ytd) < 5
momentum_analysis_one_sided(ytd, change_1d, rsi, volatility) ==
    IF ytd > 15 /\ change_1d > 0 /\ rsi > 50
    THEN [signal |-> "BUY", reasoning |-> <<"strong_momentum">>]
    ELSE IF ytd < -10 /\ change_1d < 0
    THEN [signal |-> "WEAK_SELL", reasoning |-> <<"weakness_persists">>]
    ELSE IF ytd < 5 /\ volatility < 15
    THEN [signal |-> "WEAK_BUY", reasoning |-> <<"low_vol_consolidation">>]
    ELSE [signal |-> "HOLD", reasoning |-> <<"momentum_neutral">>]

momentum_analysis(ytd, change_1d, rsi, volatility) ==
    IF ytd > 15 /\ change_1d > 0 /\ rsi > 50
    THEN [signal |-> "BUY", reasoning |-> <<"strong_momentum">>]
    ELSE IF ytd < -10 /\ change_1d < 0
    THEN [signal |-> "WEAK_SELL", reasoning |-> <<"weakness_persists">>]
    ELSE IF Abs(ytd) < 5 /\ volatility < 15
    THEN [signal |-> "WEAK_BUY", reasoning |-> <<"low_vol_consolidation">>]
    ELSE [signal |-> "HOLD", reasoning |-> <<"momentum_neutral">>]

(***************************************************************************)
(* Expert 4, _fundamental_analysis (advisory.py 254-263).                  *)
(***************************************************************************)
\* the value-zone rule without its volatility test
fundamental_analysis_any_volatility(price, ma50, rsi, week_position, volatility, symbol) ==
    IF RatLT(week_position, 25)
    THEN [signal |-> "BUY", reasoning |-> <<"value_zone">>]
    ELSE IF RatGT(week_position, 80)
    THEN [signal |-> "WEAK_SELL", reasoning |-> <<"overvalued">>]
    ELSE IF RatLT(week_position, 50)
    THEN [signal |-> "WEAK_BUY", reasoning |-> <<"below_midpoint">>]
    ELSE [signal |-> "HOLD", reasoning |-> <<"valuation_neutral">>]

fundamental_analysis(price, ma50, rsi, week_position, volatility, symbol) ==
    IF RatLT(week_position, 25) /\ volatility < 20
    THEN [signal |-> "BUY", reasoning |-> <<"value_zone">>]
    ELSE IF RatGT(week_position, 80)
    THEN [signal |-> "WEAK_SELL", reasoning |-> <<"overvalued">>]
    ELSE IF RatLT(week_position, 50)
    THEN [signal |-> "WEAK_BUY", reasoning |-> <<"below_midpoint">>]
    ELSE [signal |-> "HOLD", reasoning |-> <<"valuation_neutral">>]

(***************************************************************************)
(* Expert 5, _bb_cci_analysis (advisory.py 265-304).  bb_pct is computed   *)
(* first and only shown; price is in price units, the bands in hundredths. *)
(***************************************************************************)
bb_pct(price, bb_upper, bb_lower) ==
    IF bb_upper # bb_lower
    THEN Pct(price * 100 - bb_lower, bb_upper - bb_lower)
    ELSE Div(50, 1)

\* the last branch (line 304) left without its text
bb_cci_analysis_blank_default(price, bb_upper, bb_lower, bb_middle, bb_position, bb_width, cci_120) ==
    IF Raises(bb_pct(price, bb_upper, bb_lower)) THEN ZeroDivisionError
    ELSE IF bb_position = "lower" /\ cci_120 < -100
    THEN [signal |-> "STRONG_BUY", reasoning |-> <<"lower_band_and_cci_oversold">>]
    ELSE IF bb_position = "lower" \/ cci_120 < -100
    THEN [signal |-> "BUY", reasoning |-> <<"lower_band_or_cci_oversold">>]
    ELSE IF bb_position = "upper" /\ cci_120 > 100
    THEN [signal |-> "SELL", reasoning |-> <<"upper_band_and_cci_overbought">>]
    ELSE IF bb_position = "upper" \/ cci_120 > 100
    THEN [signal |-> "WEAK_SELL", reasoning |-> <<"upper_band_or_cci_overbought">>]
    ELSE IF bb_position = "middle"
    THEN IF -50 < cci_120 /\ cci_120 < 50
         THEN [signal |-> "HOLD", reasoning |-> <<"middle_band_cci_neutral">>]
         ELSE IF cci_120 < -50
         THEN [signal |-> "WEAK_BUY", reasoning |-> <<"middle_band_cci_weak">>]
         ELSE [signal |-> "WEAK_SELL", reasoning |-> <<"middle_band_cci_strong">>]
    ELSE [signal |-> "HOLD", reasoning |-> <<>>]

\* the two single-condition rules in the other order: upper band or cci above
\* 100 tested before lower band or cci below -100
bb_cci_analysis_sell_rule_first(price, bb_upper, bb_lower, bb_middle, bb_position, bb_width, cci_120) ==
    IF Raises(bb_pct(price, bb_upper, bb_lower)) THEN ZeroDivisionError
    ELSE IF bb_position = "lower" /\ cci_120 < -100
    THEN [signal |-> "STRONG_BUY", reasoning |-> <<"lower_band_and_cci_oversold">>]
    ELSE IF bb_position = "upper" /\ cci_120 > 100
    THEN [signal |-> "SELL", reasoning |-> <<"upper_band_and_cci_overbought">>]
    ELSE IF bb_position = "upper" \/ cci_120 > 100
    THEN [signal |-> "WEAK_SELL", reasoning |-> <<"upper_band_or_cci_overbought">>]
    ELSE IF bb_position = "lower" \/ cci_120 < -100
    THEN [signal |-> "BUY", reasoning |-> <<"lower_band_or_cci_oversold">>]
    ELSE IF bb_position = "middle"
    THEN IF -50 < cci_120 /\ cci_120 < 50
         THEN [signal |-> "HOLD", reasoning |-> <<"middle_band_cci_neutral">>]
         ELSE IF cci_120 < -50
         THEN [signal |-> "WEAK_BUY", reasoning |-> <<"middle_band_cci_weak">>]
         ELSE [signal |-> "WEAK_SELL", reasoning |-> <<"middle_band_cci_strong">>]
    ELSE [signal |-> "HOLD", reasoning |-> <<"band_position_other">>]

bb_cci_analysis(price, bb_upper, bb_lower, bb_middle, bb_position, bb_width, cci_120) ==
    IF Raises(bb_pct(price, bb_upper, bb_lower)) THEN ZeroDivisionError
    ELSE IF bb_position = "lower" /\ cci_120 < -100
    THEN [signal |-> "STRONG_BUY", reasoning |-> <<"lower_band_and_cci_oversold">>]
    ELSE IF bb_position = "lower" \/ cci_120 < -100
    THEN [signal |-> "BUY", reasoning |-> <<"lower_band_or_cci_oversold">>]
    ELSE IF bb_position = "upper" /\ cci_120 > 100
    THEN [signal |-> "SELL", reasoning |-> <<"upper_band_and_cci_overbought">>]
    ELSE IF bb_position = "upper" \/ cci_120 > 100
    THEN [signal |-> "WEAK_SELL", reasoning |-> <<"upper_band_or_cci_overbought">>]
    ELSE IF bb_position = "middle"
    THEN IF -50 < cci_120 /\ cci_120 < 50
         THEN [signal |-> "HOLD", reasoning |-> <<"middle_band_cci_neutral">>]
         ELSE IF cci_120 < -50
         THEN [signal |-> "WEAK_BUY", reasoning |-> <<"middle_band_cci_weak">>]
         ELSE [signal |-> "WEAK_SELL", reasoning |-> <<"middle_band_cci_strong">>]
    ELSE [signal |-> "HOLD", reasoning |-> <<"band_position_other">>]

(***************************************************************************)
(* IEEE-754 double arithmetic of _calculate_consensus (advisory.py 311-313 *)
(* and 354).  Every double met there is k/den + d * 2^-60/den for a small  *)
(* integer k, den in {5, 25, 1} and a small integer d: the sum of the      *)
(* weighted scores has den = 5, the sum divided by 5 has den = 25, the     *)
(* score has den = 1.  An operation is the exact result rounded to the     *)
(* nearest double, ties to even; the doubles of the binade [2^e, 2^(e+1))  *)
(* are the multiples of 2^(e-52), that is of den * 2^(e+8) units.          *)
(***************************************************************************)
\* 2^n for n in 0..21, and 2^n mod m for m dividing 25 (2^20 = 1 mod 25)
Pow2Table ==
    <<1, 2, 4, 8, 16, 32, 64, 128, 256, 512, 1024, 2048, 4096, 8192,
      16384, 32768, 65536, 131072, 262144, 524288, 1048576, 2097152>>
Pow2(p) == Pow2Table[p + 1]
Pow2ModTable ==
    <<1, 2, 4, 8, 16, 7, 14, 3, 6, 12, 24, 23, 21, 17, 9, 18, 11, 22, 19, 13>>
Pow2Mod(p, m) == Pow2ModTable[(p % 20) + 1] % m

\* k/den + d units >= 2^e
FloatGEPow2(k, d, den, e) ==
    IF e >= 0
    THEN k > den * Pow2(e) \/ (k = den * Pow2(e) /\ d >= 0)
    ELSE k * Pow2(-e) > den \/ (k * Pow2(-e) = den /\ d >= 0)

\* the e with 2^e <= k/den + d units < 2^(e+1), for a value in [2^-9, 2^13)
Binade(k, d, den) ==
    CHOOSE e \in -9..12 : FloatGEPow2(k, d, den, e) /\ ~FloatGEPow2(k, d, den, e + 1)

\* The exact value k/den + d units is R units above a multiple of 2S, S the
\* spacing of the doubles: down to the multiple of S below, or up to the next.
RoundResidue(d, S, R) ==
    IF 2 * (R % S) < S THEN d - (R % S)
    ELSE IF 2 * (R % S) > S THEN d + S - (R % S)
    ELSE IF R >= S THEN d + S - (R % S) ELSE d - (R % S)

RoundInBinade(k, d, den, e) ==
    RoundResidue(d, den * Pow2(e + 8),
                 ((k % den) * Pow2(e + 9) * Pow2Mod(51 - e, den) + d)
                    % (den * Pow2(e + 9)))

\* The d of the double nearest to k/den + d units (ties to even).
RoundNearestEven(k, d, den) ==
    IF k = 0 THEN 0
    ELSE The({RoundInBinade(k, v, den, Binade(k, v, den)) : v \in {d}})

\* the same for a value of either sign
RoundSigned(k, d, den) ==
    IF k < 0 THEN 0 - RoundNearestEven(0 - k, 0 - d, den) ELSE RoundNearestEven(k, d, den)

\* The double 0.2 is (2^54 + 1) / (5 * 2^54) = 1/5 + 64 units (line 311).
WeightEps == 64

\* s * w for an integer score s and w = 0.2 (line 312): k = s, den = 5.
WeightedTerm(s) == RoundNearestEven(s, WeightEps * s, 5)

\* acc + s * w
AddTerm(acc, s) ==
    [k |-> acc.k + s, d |-> RoundNearestEven(acc.k + s, acc.d + WeightedTerm(s), 5)]

\* sum(s * w ...) (line 312): left to right from the integer 0.
RECURSIVE WeightedSum(_)
WeightedSum(signals) ==
    IF signals = <<>> THEN [k |-> 0, d |-> 0]
    ELSE The({AddTerm(acc, signals[Len(signals)]) :
                acc \in {WeightedSum(SubSeq(signals, 1, Len(signals) - 1))}})

\* avg_score >= a/2 for the thresholds 4.5 .. 0.5 (lines 319-328)
AvgGEHalves(avg, a) ==
    2 * avg.k > 5 * a \/ (2 * avg.k = 5 * a /\ avg.d >= 0)

\* (avg_score / 5) * 100 (line 354): the double whole + eps * 2^-60.
Consensus100(avg) ==
    [whole |-> 4 * avg.k,
     eps |-> RoundNearestEven(4 * avg.k, 4 * RoundNearestEven(avg.k, avg.d, 25), 1)]

\* comparisons of two scores, and of a score with an integer
ScoreGE(a, b) == a.whole > b.whole \/ (a.whole = b.whole /\ a.eps >= b.eps)
ScoreAtLeast(score, c) == ScoreGE(score, [whole |-> c, eps |-> 0])

(***************************************************************************)
(* _calculate_consensus (advisory.py 306-356).                             *)
(***************************************************************************)
SeqMax(s) == CHOOSE x \in {s[i] : i \in DOMAIN s} : \A i \in DOMAIN s : x >= s[i]
SeqMin(s) == CHOOSE x \in {s[i] : i \in DOMAIN s} : \A i \in DOMAIN s : x <= s[i]

\* the thresholds taken at 4, 3, 2, 1 instead of 4.5, 3.5, 2.5, 1.5, 0.5
consensus_of_whole_thresholds(avg_score) ==
    IF AvgGEHalves(avg_score, 8) THEN "STRONG_BUY"
    ELSE IF AvgGEHalves(avg_score, 6) THEN "BUY"
    ELSE IF AvgGEHalves(avg_score, 4) THEN "WEAK_BUY"
    ELSE IF AvgGEHalves(avg_score, 2) THEN "HOLD"
    ELSE IF AvgGEHalves(avg_score, 1) THEN "WEAK_SELL"
    ELSE "SELL"

consensus_of(avg_score) ==
    IF AvgGEHalves(avg_score, 9) THEN "STRONG_BUY"
    ELSE IF AvgGEHalves(avg_score, 7) THEN "BUY"
    ELSE IF AvgGEHalves(avg_score, 5) THEN "WEAK_BUY"
    ELSE IF AvgGEHalves(avg_score, 3) THEN "HOLD"
    ELSE IF AvgGEHalves(avg_score, 1) THEN "WEAK_SELL"
    ELSE "SELL"

\* the sell count tested before the buy count
consensus_reason_sell_first(signals, disagreement) ==
    LET buy_count == Cardinality({i \in DOMAIN signals : signals[i] >= 3})
        sell_count == Cardinality({i \in DOMAIN signals : signals[i] <= 1})
    IN  IF sell_count >= 2 THEN <<"sell_count", sell_count>>
        ELSE IF buy_count >= 3 THEN <<"buy_count", buy_count, disagreement>>
        ELSE IF disagreement <= 1 THEN <<"high_consensus">>
        ELSE <<"experts_diverge", disagreement>>

consensus_reason(signals, disagreement) ==
    LET buy_count == Cardinality({i \in DOMAIN signals : signals[i] >= 3})
        sell_count == Cardinality({i \in DOMAIN signals : signals[i] <= 1})
    IN  IF buy_count >= 3 THEN <<"buy_count", buy_count, disagreement>>
        ELSE IF sell_count >= 2 THEN <<"sell_count", sell_count>>
        ELSE IF disagreement <= 1 THEN <<"high_consensus">>
        ELSE <<"experts_diverge", disagreement>>

\* the high tier from a disagreement of 4 on
risk_of_from_four(disagreement) ==
    IF disagreement >= 4 THEN "high"
    ELSE IF disagreement >= 2 THEN "medium"
    ELSE "low"

risk_of(disagreement) ==
    IF disagreement >= 3 THEN "high"
    ELSE IF disagreement >= 2 THEN "medium"
    ELSE "low"

consensus_result(signals, avg_score, disagreement) ==
    [consensus |-> consensus_of(avg_score),
     consensus_100 |-> Consensus100(avg_score),
     reason |-> consensus_reason(signals, disagreement),
     risk |-> risk_of(disagreement)]

\* lines 308-356 for each list of five scores, computed once
consensus_of_scores ==
    [signals \in [1..5 -> 0..5] |->
        The({consensus_result(signals, avg_score, SeqMax(signals) - SeqMin(signals)) :
               avg_score \in {WeightedSum(signals)}})]

calculate_consensus(trend, mean_rev, momentum, fundamental, bb_cci) ==
    consensus_of_scores[<<SignalScore(trend.signal), SignalScore(mean_rev.signal),
                          SignalScore(momentum.signal), SignalScore(fundamental.signal),
                          SignalScore(bb_cci.signal)>>]

(***************************************************************************)
(* Sizing (advisory.py 358-387).  stop_pct and tp_pct are held doubled     *)
(* (volatility * 1.5 is a half-integer).  The two prices are the doubles   *)
(* the source computes, held exactly as num/den + eps * 2^-63/25 with      *)
(* den = 200: pct / 100, then 1 -/+ that, then price * that, each rounded  *)
(* to the nearest double.                                                  *)
(***************************************************************************)
\* the brackets chosen by the score alone
calculate_position_size_score_only(score, risk, volatility) ==
    IF ScoreAtLeast(score, 80) THEN "15-20%"
    ELSE IF ScoreAtLeast(score, 70) THEN "10-15%"
    ELSE IF ScoreAtLeast(score, 60) THEN "5-10%"
    ELSE IF ScoreAtLeast(score, 40) THEN "3-5% (watch)"
    ELSE "0-2% (probe)"

\* the top bracket granted only when the instrument is also calm
calculate_position_size_calm_only(score, risk, volatility) ==
    IF ScoreAtLeast(score, 80) /\ risk = "low" /\ volatility < 40 THEN "15-20%"
    ELSE IF ScoreAtLeast(score, 70) THEN "10-15%"
    ELSE IF ScoreAtLeast(score, 60) THEN "5-10%"
    ELSE IF ScoreAtLeast(score, 40) THEN "3-5% (watch)"
    ELSE "0-2% (probe)"

calculate_position_size(score, risk, volatility) ==
    IF ScoreAtLeast(score, 80) /\ risk = "low" THEN "15-20%"
    ELSE IF ScoreAtLeast(score, 70) THEN "10-15%"
    ELSE IF ScoreAtLeast(score, 60) THEN "5-10%"
    ELSE IF ScoreAtLeast(score, 40) THEN "3-5% (watch)"
    ELSE "0-2% (probe)"

\* 1 + sign * (pct / 100) for pct = pct2 / 2: the double is
\* ((200 + sign * pct2)/25 + the result * 2^-60/25) / 8
one_plus_pct(pct2, sign) ==
    The({RoundSigned(200 + sign * pct2, sign * q, 25) : q \in {RoundSigned(pct2, 0, 25)}})

\* price * (1 + sign * pct / 100) (lines 379, 387)
price_times(price, pct2, sign) ==
    The({[num |-> price * (200 + sign * pct2), den |-> 200,
          eps |-> RoundSigned(price * (200 + sign * pct2), price * f, 25)] :
            f \in {one_plus_pct(pct2, sign)}})

\* the stop distance with a floor of 3% in the last branch too
stop_pct2_floored(volatility, signal) ==
    IF SignalScore(signal) >= 4 THEN Max(volatility * 3, 10)
    ELSE IF SignalScore(signal) <= 1 THEN Max(volatility * 2, 6)
    ELSE Max(volatility * 4, 6)

\* the stop distance of a buy at twice the volatility instead of 1.5 times
stop_pct2_twice_volatility(volatility, signal) ==
    IF SignalScore(signal) >= 4 THEN Max(volatility * 4, 10)
    ELSE IF SignalScore(signal) <= 1 THEN Max(volatility * 2, 6)
    ELSE volatility * 4

stop_pct2(volatility, signal) ==
    IF SignalScore(signal) >= 4 THEN Max(volatility * 3, 10)
    ELSE IF SignalScore(signal) <= 1 THEN Max(volatility * 2, 6)
    ELSE volatility * 4

\* the target distance without the floor of 10% in the first branch
tp_pct2_unfloored(volatility, signal) ==
    IF SignalScore(signal) >= 4 THEN volatility * 6 ELSE volatility * 4

tp_pct2(volatility, signal) ==
    IF SignalScore(signal) >= 4 THEN Max(volatility * 6, 20)
    ELSE volatility * 4

\* the current_price and volatility values of the readings below
Prices == {0, 140, 175, 210}
Volatilities == {0, 10, 18, 40, 60}

\* lines 373-379 and 383-387 for each price, volatility and composite
\* Signal, computed once
price_levels ==
    [price \in Prices, volatility \in Volatilities, signal \in SignalStrength |->
        [stop_loss |-> price_times(price, stop_pct2(volatility, signal), -1),
         take_profit |-> price_times(price, tp_pct2(volatility, signal), 1)]]

calculate_stop_loss(price, volatility, signal) ==
    price_levels[price, volatility, signal].stop_loss

calculate_take_profit(price, volatility, signal) ==
    price_levels[price, volatility, signal].take_profit

(***************************************************************************)
(* analyze_asset (advisory.py 72-195).  The result is None, a raised       *)
(* ZeroDivisionError, or the AssetRecommendation.  key_metrics is display  *)
(* data; of it the model keeps the two guarded quotients (lines 111, 123), *)
(* which can raise.                                                        *)
(***************************************************************************)
\* line 90 without its fallback
week_range_unguarded(high_52w, low_52w) == high_52w - low_52w

\* lines 90-91
week_range(high_52w, low_52w) == IF high_52w # low_52w THEN high_52w - low_52w ELSE 1
week_position(price, high_52w, low_52w) ==
    Pct(price - low_52w, week_range(high_52w, low_52w))

\* line 111: price/ma50 if ma50 != 0 else 1.0
price_to_ma50(price, ma50) == IF ma50 # 0 THEN Div(price, ma50) ELSE Div(1, 1)

ExpertOpinion(name, opinion, confidence) ==
    [expert_name |-> name, signal |-> opinion.signal,
     reasoning |-> opinion.reasoning, confidence |-> confidence]

\* line 76: if not data: return None
no_reading(data) == ~Truthy(data)

\* lines 176-195: the AssetRecommendation
recommendation(symbol, data, price, rsi, change_1d, change_ytd, volatility, trend, mean_rev, momentum, fundamental, bb_cci, c) ==
    [symbol |-> symbol,
     name |-> Get(data, "name", symbol),
     category |-> Get(data, "category", "unknown"),
     current_price |-> price,
     trend_expert |-> ExpertOpinion("Trend", trend,
                         IF Abs(change_1d) > 20 THEN 75 ELSE 60),
     mean_rev_expert |-> ExpertOpinion("MeanReversion", mean_rev,
                         IF rsi < 30 \/ rsi > 70 THEN 80 ELSE 50),
     momentum_expert |-> ExpertOpinion("Momentum", momentum,
                         IF Abs(change_ytd) > 10 THEN 70 ELSE 55),
     fundamental_expert |-> ExpertOpinion("Value", fundamental, 65),
     bb_cci_expert |-> ExpertOpinion("BB+CCI", bb_cci, 85),
     consensus_signal |-> c.consensus,
     consensus_score |-> c.consensus_100,
     consensus_reasoning |-> c.reason,
     risk_level |-> c.risk,
     position_size |-> calculate_position_size(c.consensus_100, c.risk, volatility),
     stop_loss |-> calculate_stop_loss(price, volatility, c.consensus),
     take_profit |-> calculate_take_profit(price, volatility, c.consensus),
     rank_in_category |-> 0,
     overall_rank |-> 0]

\* lines 102-195, the experts' results in hand
consult(symbol, data, price, ma50, rsi, change_1d, change_ytd, volatility, wpos, trend, mean_rev, momentum, fundamental, bb_cci) ==
    IF \/ Raises(wpos)
       \/ trend = ZeroDivisionError
       \/ Raises(price_to_ma50(price, ma50))
       \/ mean_rev = ZeroDivisionError
       \/ Raises(dist_to_ma(price, ma50))
       \/ bb_cci = ZeroDivisionError
    THEN ZeroDivisionError
    ELSE The({recommendation(symbol, data, price, rsi, change_1d, change_ytd,
                             volatility, trend, mean_rev, momentum, fundamental,
                             bb_cci, c) :
                c \in {calculate_consensus(trend, mean_rev, momentum,
                                           fundamental, bb_cci)}})

analyze_asset(symbol, data) ==
    IF no_reading(data) THEN None
    ELSE
    LET price == Get(data, "current_price", 0)
        ma10 == Get(data, "ma_10", price)
        ma50 == Get(data, "ma_50", price)
        rsi == Get(data, "rsi", 50)
        change_1d == Get(data, "daily_change_pct", 0)
        change_ytd == Get(data, "ytd_return", 0)
        volatility == Get(data, "volatility", 0)
        high_52w == Get(data, "high_52w", price)
        low_52w == Get(data, "low_52w", price)
        wpos == week_position(price, high_52w, low_52w)
        ma_120 == Get(data, "ma_120", ma50)
        bb_upper == Get(data, "bb_upper", price * 102)
        bb_lower == Get(data, "bb_lower", price * 98)
        bb_middle == Get(data, "bb_middle", price)
        bb_position == Get(data, "bb_position", "middle")
        bb_width == Get(data, "bb_width", 4)
        cci_120 == Get(data, "cci_120", 0)
    IN  The({consult(symbol, data, price, ma50, rsi, change_1d, change_ytd,
                     volatility, wpos, trend, mean_rev, momentum, fundamental, bb_cci) :
               trend \in {trend_analysis(price, ma10, ma50, change_1d, ma_120)},
               mean_rev \in {mean_reversion_analysis(price, ma50, rsi, wpos, change_1d)},
               momentum \in {momentum_analysis(change_ytd, change_1d, rsi, volatility)},
               fundamental \in {fundamental_analysis(price, ma50, rsi, wpos,
                                                     volatility, symbol)},
               bb_cci \in {bb_cci_analysis(price, bb_upper, bb_lower, bb_middle,
                                           bb_position, bb_width, cci_120)}})

(***************************************************************************)
(* Inputs.  The readings handed to analyze_asset are the self-test reading *)
(* of advisory.py 440-453 (Scenario A) and the name-only record that       *)
(* process_all_assets builds for an instrument with too little history     *)
(* (indicators.py 132-133, 204-207), each with up to MaxEdits fields set   *)
(* to another value or removed, and three readings built to reach the      *)
(* guarded denominators and the strongest buy and sell opinions, each with *)
(* up to MaxEdits - 1 such edits.                                          *)
(***************************************************************************)
MaxEdits == 2

ScenarioA ==
    [current_price |-> 175, ma_10 |-> 170, ma_50 |-> 165, rsi |-> 45,
     daily_change_pct |-> 25, ytd_return |-> 12, volatility |-> 18,
     high_52w |-> 200, low_52w |-> 150]

\* calculate_all_indicators on fewer than two rows of history
NoIndicators == EmptyReading

\* {'name': data['name'], **indicators}
process_asset(name, indicators) ==
    [f \in {"name"} \cup DOMAIN indicators |->
        IF f \in DOMAIN indicators THEN indicators[f] ELSE name]

NameOnly == process_asset("Apple Inc.", NoIndicators)

Fields ==
    {"current_price", "ma_10", "ma_50", "ma_120", "rsi", "daily_change_pct",
     "ytd_return", "volatility", "high_52w", "low_52w", "bb_upper", "bb_lower",
     "bb_middle", "bb_position", "bb_width", "cci_120", "name", "category"}

FieldValues(f) ==
    CASE f = "current_price"    -> {0, 140, 210}
      [] f = "ma_10"            -> {0, 180}
      [] f = "ma_50"            -> {0, 190}
      [] f = "ma_120"           -> {0, 150, 200}
      [] f = "rsi"              -> {25, 35, 65, 75}
      [] f = "daily_change_pct" -> {-30, 0}
      [] f = "ytd_return"       -> {-12, 2, 20}
      [] f = "volatility"       -> {0, 10, 40, 60}
      [] f = "high_52w"         -> {150, 180}
      [] f = "low_52w"          -> {100, 200}
      [] f = "bb_upper"         -> {17000, 18000}
      [] f = "bb_lower"         -> {17000, 17850}
      [] f = "bb_middle"        -> {170}
      [] f = "bb_position"      -> {"lower", "upper", "outside"}
      [] f = "bb_width"         -> {6}
      [] f = "cci_120"          -> {-120, -50, 50, 150}
      [] f = "name"             -> {"Apple Inc."}
      [] f = "category"         -> {"stocks"}

\* the reading with field f set to v, and with field f removed
SetField(dict, f, v) ==
    [g \in DOMAIN dict \cup {f} |-> IF g = f THEN v ELSE dict[g]]
RemoveField(dict, f) == [g \in DOMAIN dict \ {f} |-> dict[g]]

\* the fields in a fixed order, so that each edited reading is built once
FieldOrder ==
    <<"current_price", "ma_10", "ma_50", "ma_120", "rsi", "daily_change_pct",
      "ytd_return", "volatility", "high_52w", "low_52w", "bb_upper", "bb_lower",
      "bb_middle", "bb_position", "bb_width", "cci_120", "name", "category">>

\* the reading with field f given another value or removed
Changes(dict, f) ==
    ({SetField(dict, f, v) : v \in FieldValues(f)} \cup {RemoveField(dict, f)}) \ {dict}

\* the readings that differ from dict in at most k of the fields from the i-th on
RECURSIVE EditsFrom(_, _, _)
EditsFrom(dict, i, k) ==
    IF k = 0 \/ i > Len(FieldOrder) THEN {dict}
    ELSE EditsFrom(dict, i + 1, k)
         \cup UNION {EditsFrom(changed, i + 1, k - 1) : changed \in Changes(dict, FieldOrder[i])}

\* the readings that differ from base in at most k fields
EditsUpTo(base, k) == EditsFrom(base, 1, k)

\* every guarded denominator at zero: ma_50, ma_120, the band width, the 52-week range
ZeroDenominators ==
    [ScenarioA EXCEPT !.ma_50 = 0, !.high_52w = 150] @@
    [ma_120 |-> 0, bb_upper |-> 17000, bb_lower |-> 17000]

\* four experts at BUY or better: Trend BUY, Mean-Reversion BUY, Momentum
\* WEAK_BUY, Value BUY, BB+CCI STRONG_BUY
Bullish ==
    [current_price |-> 175, ma_10 |-> 170, ma_50 |-> 165, rsi |-> 35,
     daily_change_pct |-> 25, ytd_return |-> 2, volatility |-> 10,
     high_52w |-> 300, low_52w |-> 150, bb_position |-> "lower", cci_120 |-> -120]

\* every expert at WEAK_SELL or worse: Trend SELL, Mean-Reversion WEAK_SELL,
\* Momentum WEAK_SELL, Value WEAK_SELL, BB+CCI SELL
Bearish ==
    [current_price |-> 175, ma_10 |-> 180, ma_50 |-> 190, rsi |-> 65,
     daily_change_pct |-> -30, ytd_return |-> -12, volatility |-> 40,
     high_52w |-> 180, low_52w |-> 100, bb_position |-> "upper", cci_120 |-> 150]

Readings ==
    EditsUpTo(ScenarioA, MaxEdits) \cup EditsUpTo(NameOnly, MaxEdits)
        \cup EditsUpTo(ZeroDenominators, MaxEdits - 1)
        \cup EditsUpTo(Bullish, MaxEdits - 1)
        \cup EditsUpTo(Bearish, MaxEdits - 1)

\* Readings that differ from a given one only in the band and oscillator
\* fields, or only in ma_120.
BandFields == {"bb_position", "bb_upper", "bb_lower", "bb_middle", "bb_width", "cci_120"}

BandProfiles ==
    {EmptyReading,
     [bb_position |-> "lower", cci_120 |-> -120],
     [bb_position |-> "upper", cci_120 |-> 150, bb_upper |-> 17000, bb_lower |-> 17000],
     [bb_position |-> "outside", bb_middle |-> 170, bb_width |-> 6, cci_120 |-> -50],
     [cci_120 |-> 50, bb_upper |-> 18000, bb_lower |-> 17850]}

WithBand(dict, profile) ==
    [f \in (DOMAIN dict \ BandFields) \cup DOMAIN profile |->
        IF f \in DOMAIN profile THEN profile[f] ELSE dict[f]]

BandVariants(dict) == {WithBand(dict, profile) : profile \in BandProfiles} \ {dict}

Ma120Variants(dict) ==
    ({RemoveField(dict, "ma_120")}
        \cup {SetField(dict, "ma_120", v) : v \in FieldValues("ma_120")}) \ {dict}

\* the readings a second, varied call is made for: those within
\* MaxEdits - 1 edits of ScenarioA, Bullish or ZeroDenominators
EditDistance(a, b) ==
    Cardinality({f \in Fields :
                    ~ \/ f \notin DOMAIN a /\ f \notin DOMAIN b
                      \/ f \in DOMAIN a /\ f \in DOMAIN b /\ a[f] = b[f]})

IsProbe(r) ==
    \E base \in {ScenarioA, Bullish, ZeroDenominators} :
        EditDistance(r, base) <= MaxEdits - 1

(***************************************************************************)
(* analyze_all (advisory.py 389-420).  data is the outer dict in iteration *)
(* order: a sequence of [category, assets], assets the inner dict in       *)
(* iteration order: a sequence of [symbol, info].                          *)
(***************************************************************************)
RECURSIVE Concat(_)
Concat(ss) == IF ss = <<>> THEN <<>> ELSE Head(ss) \o Concat(Tail(ss))

\* lines 393-394: every (category, symbol, info) in iteration order
Entries(data) ==
    Concat([c \in DOMAIN data |->
              [a \in DOMAIN data[c].assets |->
                 [category |-> data[c].category,
                  symbol |-> data[c].assets[a].symbol,
                  info |-> data[c].assets[a].info]]])

\* lines 395-399 for one entry: the list with what the entry adds to it, or
\* the exception analyze_asset raised
\* the recommendation appended with the category analyze_asset gave it
add_entry_keeping_category(recs, e, rec) ==
    IF rec = ZeroDivisionError THEN [raised |-> TRUE, recs |-> recs]
    ELSE IF rec # None
    THEN [raised |-> FALSE, recs |-> Append(recs, rec)]
    ELSE [raised |-> FALSE, recs |-> recs]

add_entry(recs, e, rec) ==
    IF rec = ZeroDivisionError THEN [raised |-> TRUE, recs |-> recs]
    ELSE IF rec # None
    THEN [raised |-> FALSE, recs |-> Append(recs, [rec EXCEPT !.category = e.category])]
    ELSE [raised |-> FALSE, recs |-> recs]

\* an entry without a reading ending the call instead of being passed over
analyze_entry_raising(recs, e) ==
    IF Truthy(e.info)
    THEN The({add_entry(recs, e, rec) : rec \in {analyze_asset(e.symbol, e.info)}})
    ELSE [raised |-> TRUE, recs |-> recs]

analyze_entry(recs, e) ==
    IF Truthy(e.info)
    THEN The({add_entry(recs, e, rec) : rec \in {analyze_asset(e.symbol, e.info)}})
    ELSE [raised |-> FALSE, recs |-> recs]

\* lines 391-399: the loop, ended by the first exception
RECURSIVE collect(_)
collect(entries) ==
    IF entries = <<>> THEN [raised |-> FALSE, recs |-> <<>>]
    ELSE The({IF sofar.raised THEN sofar
              ELSE analyze_entry(sofar.recs, entries[Len(entries)]) :
                sofar \in {collect(SubSeq(entries, 1, Len(entries) - 1))}})

\* the order sorted(...)[::-1] would give: x goes before the elements it ties with
InsertBeforeTies(sorted, x) ==
    LET before == {i \in 1..Len(sorted) :
                     \A j \in 1..i : ~ScoreGE(x.consensus_score, sorted[j].consensus_score)}
        k == Cardinality(before)
    IN  SubSeq(sorted, 1, k) \o <<x>> \o SubSeq(sorted, k + 1, Len(sorted))

\* line 402: list.sort(key=consensus_score, reverse=True), a stable sort:
\* x goes before the first element that scores strictly less.
InsertByScore(sorted, x) ==
    LET before == {i \in 1..Len(sorted) :
                     \A j \in 1..i : ScoreGE(sorted[j].consensus_score, x.consensus_score)}
        k == Cardinality(before)
    IN  SubSeq(sorted, 1, k) \o <<x>> \o SubSeq(sorted, k + 1, Len(sorted))

RECURSIVE SortByScoreDesc(_)
SortByScoreDesc(recs) ==
    IF recs = <<>> THEN <<>>
    ELSE The({InsertByScore(sorted, recs[Len(recs)]) :
                sorted \in {SortByScoreDesc(SubSeq(recs, 1, Len(recs) - 1))}})

\* lines 405-406
assign_overall_rank(recs) == [i \in DOMAIN recs |-> [recs[i] EXCEPT !.overall_rank = i]]

\* one counter shared by all categories
rank_in_category_shared_counter(recs) ==
    [i \in DOMAIN recs |-> [recs[i] EXCEPT !.rank_in_category = i]]

\* lines 414-418: a running counter per category
assign_rank_in_category(recs) ==
    [i \in DOMAIN recs |->
       [recs[i] EXCEPT !.rank_in_category =
          Cardinality({j \in 1..i : recs[j].category = recs[i].category})]]

\* lines 404-420 without the sort of line 402
rank_unsorted(recs) == assign_rank_in_category(assign_overall_rank(recs))

\* lines 401-420 with the first collected recommendation left at the head of
\* the list and only the others sorted
rank_after_first(recs) ==
    assign_rank_in_category(assign_overall_rank(
        IF recs = <<>> THEN <<>>
        ELSE <<recs[1]>> \o SortByScoreDesc(SubSeq(recs, 2, Len(recs)))))

\* lines 401-420 on the collected list
rank(recs) == assign_rank_in_category(assign_overall_rank(SortByScoreDesc(recs)))

\* The list, or raised = TRUE when an exception ended the call.
analyze_all(data) ==
    The({IF got.raised THEN [raised |-> TRUE, list |-> <<>>]
         ELSE [raised |-> FALSE, list |-> The({rank(recs) : recs \in {got.recs}})] :
           got \in {collect(Entries(data))}})

(***************************************************************************)
(* get_top_picks (advisory.py 422-425) and get_category_leaders (427-433). *)
(***************************************************************************)
is_buy_signal(r) == ScoreAtLeast(r.consensus_score, 60)

\* seq[:n]
SlicePrefix(seq, n) ==
    IF n >= 0 THEN SubSeq(seq, 1, IF n < Len(seq) THEN n ELSE Len(seq))
    ELSE SubSeq(seq, 1, IF Len(seq) + n > 0 THEN Len(seq) + n ELSE 0)

\* the list sorted again before the filter
get_top_picks_resorted(recs, n) ==
    SlicePrefix(SelectSeq(SortByScoreDesc(recs), is_buy_signal), n)

get_top_picks(recs, n) == SlicePrefix(SelectSeq(recs, is_buy_signal), n)

\* line 431 without the score test
is_first_in_category(r) == r.rank_in_category = 1

is_leader(r) == r.rank_in_category = 1 /\ is_buy_signal(r)

\* leaders[rec.category] = rec in list order: the last leader of a category stays
get_category_leaders(recs) ==
    LET hits == {i \in DOMAIN recs : is_leader(recs[i])}
    IN  [c \in {recs[i].category : i \in hits} |->
           recs[CHOOSE i \in hits : /\ recs[i].category = c
                                    /\ \A j \in hits : recs[j].category = c => j <= i]]

(***************************************************************************)
(* Inputs of analyze_all: up to MaxInstruments instruments spread, in      *)
(* order, over up to MaxCategories categories of config.ALL_ASSETS.  An    *)
(* instrument's info is absent (None), empty, or one of three full        *)
(* readings that score 48, 60 and 64.                                      *)
(***************************************************************************)
MaxInstruments == 3
MaxCategories == 2
MaxN == 3

CategoryKeys == <<"us_stocks", "precious_metals", "crypto">>
SymbolNames ==
    <<  <<"AAPL", "MSFT", "GOOGL", "AMZN">>,
        <<"GLD", "SLV", "PPLT", "PALL">>,
        <<"BTC-USD", "ETH-USD", "SOL-USD", "WLD-USD">>  >>

\* Oversold carries a category field of its own, naming another category
Oversold ==
    SetField(SetField(SetField(ScenarioA, "bb_position", "lower"), "cci_120", -120),
             "category", "precious_metals")
ValueZone == SetField(RemoveField(ScenarioA, "low_52w"), "bb_position", "lower")

PortfolioInfos == {None, EmptyReading, ScenarioA, Oversold, ValueZone}

\* the ways to cut t instruments, in order, into c categories (some may be empty)
Splits(t, c) == {f \in [1..t -> 1..c] : \A i \in 1..t : \A j \in i..t : f[i] <= f[j]}

MakeData(infos, f, c) ==
    [k \in 1..c |->
       LET mine == SelectSeq([i \in DOMAIN infos |-> i], LAMBDA i : f[i] = k)
       IN  [category |-> CategoryKeys[k],
            assets |-> [j \in DOMAIN mine |->
                          [symbol |-> SymbolNames[k][j], info |-> infos[mine[j]]]]]]

(***************************************************************************)
(* The state: a freshly constructed engine (expert_weights, advisory.py    *)
(* 64-70) and what its caller holds.  Each behaviour is one use of the     *)
(* engine: one call of analyze_asset, of _calculate_consensus, of          *)
(* _calculate_position_size or of analyze_all; after analyze_asset a       *)
(* second call, after analyze_all the selections made on its list or a     *)
(* second call on the same mapping in another order.                       *)
(***************************************************************************)
VARIABLES expert_weights, last, symbol, reading, rec, opinions, consensus,
          data, recommendations, aborted, picks_from, n, top_picks, leaders,
          reading_before, other_reading, other_rec, sizing, reordered

vars == <<expert_weights, last, symbol, reading, rec, opinions, consensus,
          data, recommendations, aborted, picks_from, n, top_picks, leaders,
          reading_before, other_reading, other_rec, sizing, reordered>>

NotCalled == [py |-> "not_called"]

Init ==
    /\ expert_weights = [trend |-> 25, mean_reversion |-> 25,
                         momentum |-> 25, fundamental |-> 25]
    /\ last = "init"
    /\ symbol = NotCalled /\ reading = NotCalled /\ rec = NotCalled
    /\ opinions = NotCalled /\ consensus = NotCalled
    /\ data = NotCalled /\ recommendations = NotCalled /\ aborted = FALSE
    /\ picks_from = NotCalled /\ n = NotCalled /\ top_picks = NotCalled
    /\ leaders = NotCalled
    /\ reading_before = NotCalled /\ other_reading = NotCalled /\ other_rec = NotCalled
    /\ sizing = NotCalled /\ reordered = NotCalled

\* daily_change_pct taken with data.pop(...) instead of data.get(...)
analyze_asset_call_popping(symbol_arg, data_arg) ==
    [result |-> analyze_asset(symbol_arg, data_arg),
     data |-> RemoveField(data_arg, "daily_change_pct")]

\* One call of analyze_asset as its caller sees it: the value returned and the
\* dict that was passed, which the method only reads (lines 79-100).
analyze_asset_call(symbol_arg, data_arg) ==
    [result |-> analyze_asset(symbol_arg, data_arg), data |-> data_arg]

\* rec = engine.analyze_asset(symbol, reading); reading_before is the caller's
\* copy of the reading taken before the call
AnalyzeAsset ==
    /\ last = "init"
    /\ \E s \in {"AAPL"}, r \in Readings \cup {None} :
       \E call \in {analyze_asset_call(s, r)} :
          /\ symbol' = s
          /\ reading_before' = r
          /\ reading' = call.data
          /\ rec' = call.result
    /\ last' = "analyze_asset"
    /\ UNCHANGED <<expert_weights, opinions, consensus, data, recommendations, aborted,
                   picks_from, n, top_picks, leaders, other_reading, other_rec,
                   sizing, reordered>>

\* other_rec = engine.analyze_asset(symbol, reading): the same call again, on
\* the same engine and the same dict
AnalyzeAssetAgain ==
    /\ last = "analyze_asset"
    /\ \E call \in {analyze_asset_call(symbol, reading)} :
          /\ other_reading' = reading
          /\ reading' = call.data
          /\ other_rec' = call.result
    /\ last' = "analyze_asset_again"
    /\ UNCHANGED <<expert_weights, symbol, rec, opinions, consensus, data,
                   recommendations, aborted, picks_from, n, top_picks, leaders,
                   reading_before,
                   sizing, reordered>>

\* other_rec = engine.analyze_asset(symbol, other_reading) for a reading that
\* differs from the first in the band fields only, or in ma_120 only
AnalyzeAssetVariant ==
    /\ last = "analyze_asset"
    /\ IsProbe(reading)
    /\ \E v \in BandVariants(reading) \cup Ma120Variants(reading) :
       \E call \in {analyze_asset_call(symbol, v)} :
          /\ other_reading' = call.data
          /\ other_rec' = call.result
    /\ last' = "analyze_asset_variant"
    /\ UNCHANGED <<expert_weights, symbol, reading, rec, opinions, consensus, data,
                   recommendations, aborted, picks_from, n, top_picks, leaders,
                   reading_before,
                   sizing, reordered>>

\* engine._calculate_consensus(trend, mean_rev, momentum, fundamental, bb_cci)
CalculateConsensus ==
    /\ last = "init"
    /\ \E o \in [1..5 -> SignalStrength] :
          /\ opinions' = [i \in 1..5 |-> [signal |-> o[i]]]
          /\ consensus' = calculate_consensus(opinions'[1], opinions'[2],
                                              opinions'[3], opinions'[4], opinions'[5])
    /\ last' = "calculate_consensus"
    /\ UNCHANGED <<expert_weights, symbol, reading, rec, data, recommendations, aborted,
                   picks_from, n, top_picks, leaders,
                   reading_before, other_reading, other_rec,
                   sizing, reordered>>

\* recommendations = engine.analyze_all(data)
AnalyzeAll ==
    /\ last = "init"
    /\ \E t \in 0..MaxInstruments, c \in 0..MaxCategories :
       \E infos \in [1..t -> PortfolioInfos], f \in Splits(t, c) :
       \E d \in {MakeData(infos, f, c)} : \E result \in {analyze_all(d)} :
          /\ data' = d
          /\ recommendations' = result.list
          /\ aborted' = result.raised
    /\ last' = "analyze_all"
    /\ UNCHANGED <<expert_weights, symbol, reading, rec, opinions, consensus,
                   picks_from, n, top_picks, leaders,
                   reading_before, other_reading, other_rec,
                   sizing, reordered>>

Reverse(seq) == [i \in DOMAIN seq |-> seq[Len(seq) + 1 - i]]

\* the same mapping iterated in another order: its categories reversed, the
\* assets of every category reversed, or both
ReverseAssets(d) == [k \in DOMAIN d |-> [d[k] EXCEPT !.assets = Reverse(@)]]

Reorderings(d) == {Reverse(d), ReverseAssets(d), Reverse(ReverseAssets(d))} \ {d}

\* engine.analyze_all(d) for a mapping d holding what data holds, in another order
AnalyzeAllReordered ==
    /\ last = "analyze_all"
    /\ \E d \in Reorderings(data) : \E result \in {analyze_all(d)} :
          reordered' = [data |-> d, list |-> result.list, raised |-> result.raised]
    /\ last' = "analyze_all_reordered"
    /\ UNCHANGED <<expert_weights, symbol, reading, rec, opinions, consensus,
                   data, recommendations, aborted, picks_from, n, top_picks, leaders,
                   reading_before, other_reading, other_rec, sizing>>

\* engine.get_top_picks(lst, k) on the ranked list, or on it in another order
GetTopPicks ==
    /\ last = "analyze_all"
    /\ ~aborted
    /\ \E k \in 0..MaxN, lst \in {recommendations, Reverse(recommendations)} :
          /\ picks_from' = lst
          /\ n' = k
          /\ top_picks' = get_top_picks(lst, k)
    /\ last' = "get_top_picks"
    /\ UNCHANGED <<expert_weights, symbol, reading, rec, opinions, consensus,
                   data, recommendations, aborted, leaders,
                   reading_before, other_reading, other_rec,
                   sizing, reordered>>

\* engine.get_category_leaders(recommendations)
GetCategoryLeaders ==
    /\ last = "analyze_all"
    /\ ~aborted
    /\ leaders' = get_category_leaders(recommendations)
    /\ last' = "get_category_leaders"
    /\ UNCHANGED <<expert_weights, symbol, reading, rec, opinions, consensus,
                   data, recommendations, aborted, picks_from, n, top_picks,
                   reading_before, other_reading, other_rec,
                   sizing, reordered>>

\* the doubles the aggregator can return as a 0..100 score (line 318)
ConsensusScores == {consensus_of_scores[s].consensus_100 : s \in [1..5 -> 0..5]}

\* the three tiers of line 347
RiskLevels == {"low", "medium", "high"}

\* engine._calculate_position_size(score, risk, volatility)
CalculatePositionSize ==
    /\ last = "init"
    /\ \E s \in ConsensusScores, r \in RiskLevels, v \in Volatilities :
          sizing' = [score |-> s, risk |-> r, volatility |-> v,
                     position_size |-> calculate_position_size(s, r, v)]
    /\ last' = "calculate_position_size"
    /\ UNCHANGED <<expert_weights, symbol, reading, rec, opinions, consensus,
                   data, recommendations, aborted, picks_from, n, top_picks, leaders,
                   reading_before, other_reading, other_rec, reordered>>

Next ==
    \/ AnalyzeAsset
    \/ AnalyzeAssetAgain
    \/ AnalyzeAssetVariant
    \/ CalculateConsensus
    \/ CalculatePositionSize
    \/ AnalyzeAll
    \/ AnalyzeAllReordered
    \/ GetTopPicks
    \/ GetCategoryLeaders

Spec == Init /\ [][Next]_vars

(***************************************************************************)
(* Properties of analyze_asset.                                            *)
(***************************************************************************)
\* C1: analyze_asset returns None whenever the reading is empty, has no
\* current_price field, or has current_price = 0.
C1_NoPriceNoRecommendation ==
    (last = "analyze_asset" /\ Get(reading, "current_price", 0) = 0) => rec = None

BuyLeaning == {"WEAK_BUY", "BUY", "STRONG_BUY"}
Fifty == [whole |-> 50, eps |-> 0]

\* C2 as stated: for the Scenario A reading analyze_asset returns a buy-leaning
\* composite Signal (WEAK_BUY or stronger) with consensus_score > 50.
C2_ScenarioABuyLeaning ==
    (last = "analyze_asset" /\ reading = ScenarioA) =>
        /\ rec.consensus_signal \in BuyLeaning
        /\ ~ScoreGE(Fifty, rec.consensus_score)

\* C2 amended: for the Scenario A reading analyze_asset returns the composite
\* Signal HOLD with consensus_score 48: Trend is BUY and the other four experts
\* are HOLD, an average of 2.4, below the 2.5 of WEAK_BUY.
C2_ScenarioAHold ==
    (last = "analyze_asset" /\ reading = ScenarioA) =>
        /\ rec.trend_expert.signal = "BUY"
        /\ rec.mean_rev_expert.signal = "HOLD"
        /\ rec.momentum_expert.signal = "HOLD"
        /\ rec.fundamental_expert.signal = "HOLD"
        /\ rec.bb_cci_expert.signal = "HOLD"
        /\ rec.consensus_signal = "HOLD"
        /\ rec.consensus_score = [whole |-> 48, eps |-> 0]

C2_ScenarioAAnalysed ==
    /\ last = "analyze_asset"
    /\ reading = ScenarioA
    /\ rec # None
    /\ rec.symbol = "AAPL"
    /\ rec.current_price = 175

\* C10: for every non-empty reading, ma_50 = 0, ma_120 = 0, bb_upper = bb_lower
\* and high_52w = low_52w included, analyze_asset completes without a
\* ZeroDivisionError.
C10_NoZeroDivision ==
    (last = "analyze_asset" /\ Truthy(reading)) =>
        /\ rec # ZeroDivisionError
        /\ rec # None
        /\ rec.symbol = symbol

C10_ZeroDenominatorsAnalysed ==
    /\ last = "analyze_asset"
    /\ reading = ZeroDenominators
    /\ reading.ma_50 = 0 /\ reading.ma_120 = 0
    /\ reading.bb_upper = reading.bb_lower
    /\ reading.high_52w = reading.low_52w
    /\ rec # ZeroDivisionError
    /\ rec.consensus_signal \in SignalStrength

(***************************************************************************)
(* Properties of _calculate_consensus.                                     *)
(***************************************************************************)
SignalSum == SignalScore(opinions[1].signal) + SignalScore(opinions[2].signal)
             + SignalScore(opinions[3].signal) + SignalScore(opinions[4].signal)
             + SignalScore(opinions[5].signal)

\* the thresholds on the average sum / 5, compared in tenths
SignalOfSum(sum) ==
    IF 2 * sum >= 45 THEN "STRONG_BUY"
    ELSE IF 2 * sum >= 35 THEN "BUY"
    ELSE IF 2 * sum >= 25 THEN "WEAK_BUY"
    ELSE IF 2 * sum >= 15 THEN "HOLD"
    ELSE IF 2 * sum >= 5 THEN "WEAK_SELL"
    ELSE "SELL"

\* C6: for every five expert Signals the composite score equals
\* (average of the five scores / 5) x 100, which is 4 x their sum, lies in
\* [0, 100], and the composite Signal is given by the thresholds 4.5, 3.5,
\* 2.5, 1.5, 0.5 on the average.
C6_ScoreIsScaledAverage ==
    last = "calculate_consensus" =>
        /\ consensus.consensus_100 = [whole |-> 4 * SignalSum, eps |-> 0]
        /\ ScoreAtLeast(consensus.consensus_100, 0)
        /\ ScoreGE([whole |-> 100, eps |-> 0], consensus.consensus_100)
        /\ consensus.consensus = SignalOfSum(SignalSum)

(***************************************************************************)
(* Properties of analyze_all.                                              *)
(***************************************************************************)
Ranked == last = "analyze_all" /\ ~aborted

\* where the instrument stands in the input's iteration order
EntryIndex(sym) == CHOOSE i \in DOMAIN Entries(data) : Entries(data)[i].symbol = sym

ScoreEq(a, b) == ScoreGE(a, b) /\ ScoreGE(b, a)

\* C3: in the list of N recommendations analyze_all returns, the i-th element
\* has overall_rank i, so the ranks are exactly 1..N, each once, and a smaller
\* rank never goes with a smaller consensus_score.
C3_OverallRankDenseDescending ==
    Ranked =>
        /\ \A i \in DOMAIN recommendations : recommendations[i].overall_rank = i
        /\ {recommendations[i].overall_rank : i \in DOMAIN recommendations}
              = 1..Len(recommendations)
        /\ \A i, j \in DOMAIN recommendations :
              recommendations[i].overall_rank < recommendations[j].overall_rank =>
                 ScoreGE(recommendations[i].consensus_score,
                         recommendations[j].consensus_score)

C3_SortReordered ==
    /\ last = "analyze_all"
    /\ Len(recommendations) = 3
    /\ EntryIndex(recommendations[1].symbol) > EntryIndex(recommendations[3].symbol)
    /\ ~ScoreGE(recommendations[3].consensus_score, recommendations[1].consensus_score)

\* C4: of two instruments with equal consensus_score, the one enumerated first
\* in the input (category order, then symbol order) gets the smaller
\* overall_rank.
C4_TiesKeepInputOrder ==
    Ranked =>
        \A i, j \in DOMAIN recommendations :
            (/\ ScoreEq(recommendations[i].consensus_score,
                        recommendations[j].consensus_score)
             /\ EntryIndex(recommendations[i].symbol)
                  < EntryIndex(recommendations[j].symbol))
            => recommendations[i].overall_rank < recommendations[j].overall_rank

\* a later, higher-scoring instrument ranks first; the two tied ones follow
C4_TieBelowLeader ==
    /\ last = "analyze_all"
    /\ Len(recommendations) = 3
    /\ ~ScoreGE(recommendations[2].consensus_score, recommendations[1].consensus_score)
    /\ ScoreEq(recommendations[2].consensus_score, recommendations[3].consensus_score)
    /\ EntryIndex(recommendations[1].symbol) = 3
    /\ recommendations[2].overall_rank = 2 /\ recommendations[3].overall_rank = 3

OfCategory(recs, c) == SelectSeq(recs, LAMBDA r : r.category = c)

\* C5: in every category holding M recommendations the rank_in_category values
\* are 1..M, each once, increasing with overall_rank, and are the ranks
\* analyze_all gives when that category is the whole input.
C5_CategoryRankDenseIndependent ==
    (last = "analyze_all" /\ ~aborted) =>
        \A k \in DOMAIN data :
            \A mine \in {OfCategory(recommendations, data[k].category)} :
            \A alone \in {analyze_all(<<data[k]>>).list} :
                /\ \A m \in DOMAIN mine : mine[m].rank_in_category = m
                /\ \A a, b \in DOMAIN mine :
                      a < b => mine[a].overall_rank < mine[b].overall_rank
                /\ Len(alone) = Len(mine)
                /\ \A m \in DOMAIN mine :
                      /\ alone[m].symbol = mine[m].symbol
                      /\ alone[m].rank_in_category = mine[m].rank_in_category

C5_CategoriesInterleaved ==
    /\ last = "analyze_all"
    /\ Len(recommendations) = 3
    /\ recommendations[1].category = recommendations[3].category
    /\ recommendations[2].category # recommendations[1].category
    /\ recommendations[2].rank_in_category = 1
    /\ recommendations[3].rank_in_category = 2

Usable(info) == Truthy(info) /\ Get(info, "current_price", 0) > 0

\* C9: no empty or absent reading aborts analyze_all, and every instrument
\* with a non-empty reading and a positive current_price is in the returned
\* list exactly once.
C9_UnusableReadingsSkipped ==
    last = "analyze_all" =>
        /\ ~aborted
        /\ \A i \in DOMAIN Entries(data) : \A e \in {Entries(data)[i]} :
              Usable(e.info) =>
                 Cardinality({j \in DOMAIN recommendations :
                                 /\ recommendations[j].symbol = e.symbol
                                 /\ recommendations[j].category = e.category}) = 1

C9_UsableAfterUnusable ==
    /\ last = "analyze_all"
    /\ Len(Entries(data)) = 3
    /\ Entries(data)[1].info = None
    /\ Entries(data)[2].info = EmptyReading
    /\ Usable(Entries(data)[3].info)
    /\ Len(recommendations) = 1
    /\ recommendations[1].symbol = Entries(data)[3].symbol

(***************************************************************************)
(* Properties of get_top_picks and get_category_leaders.                   *)
(***************************************************************************)
Qualifying(recs) == {i \in DOMAIN recs : ScoreAtLeast(recs[i].consensus_score, 60)}

\* the j-th qualifying position of recs, in list order
NthQualifying(recs, j) ==
    CHOOSE i \in Qualifying(recs) : Cardinality({h \in Qualifying(recs) : h < i}) = j - 1

\* C8: for n >= 0, get_top_picks(recs, n) is the first min(n, k) of the k
\* elements of recs scoring >= 60, in the order recs has them.
C8_TopPicksArePrefixOfQualifying ==
    last = "get_top_picks" =>
        \A m \in {IF n < Cardinality(Qualifying(picks_from))
                  THEN n ELSE Cardinality(Qualifying(picks_from))} :
            /\ Len(top_picks) = m
            /\ \A j \in 1..m : top_picks[j] = picks_from[NthQualifying(picks_from, j)]
            /\ \A j \in 1..m : ScoreAtLeast(top_picks[j].consensus_score, 60)

\* an unsorted list: one below 60 first, then two qualifying in ascending order
C8_TruncatedUnsorted ==
    /\ last = "get_top_picks"
    /\ n = 1
    /\ Len(picks_from) = 3
    /\ ~ScoreAtLeast(picks_from[1].consensus_score, 60)
    /\ Qualifying(picks_from) = {2, 3}
    /\ ~ScoreGE(picks_from[2].consensus_score, picks_from[3].consensus_score)
    /\ top_picks = <<picks_from[2]>>

\* C7: get_category_leaders maps a category to its recommendation with
\* rank_in_category 1 when that one scores >= 60 and leaves the category out
\* otherwise; on the output of analyze_all there is at most one entry per
\* category.
C7_LeadersAreQualifyingFirsts ==
    last = "get_category_leaders" =>
        /\ \A i \in DOMAIN recommendations : \A r \in {recommendations[i]} :
              r.rank_in_category = 1 =>
                 IF ScoreAtLeast(r.consensus_score, 60)
                 THEN r.category \in DOMAIN leaders /\ leaders[r.category] = r
                 ELSE r.category \notin DOMAIN leaders
        /\ \A c \in DOMAIN leaders :
              /\ leaders[c].category = c
              /\ leaders[c].rank_in_category = 1
              /\ \E i \in DOMAIN recommendations : recommendations[i] = leaders[c]

C7_OneLeaderOneOmitted ==
    /\ last = "get_category_leaders"
    /\ Len(recommendations) = 3
    /\ Cardinality(DOMAIN leaders) = 1
    /\ \E i \in DOMAIN recommendations :
          /\ recommendations[i].rank_in_category = 1
          /\ ~ScoreAtLeast(recommendations[i].consensus_score, 60)
          /\ recommendations[i].category \notin DOMAIN leaders

(***************************************************************************)
(* Properties of the five experts within analyze_asset.                    *)
(***************************************************************************)
IsRecommendation(r) == r # None /\ r # ZeroDivisionError /\ r # NotCalled

Experts(r) ==
    <<r.trend_expert, r.mean_rev_expert, r.momentum_expert, r.fundamental_expert,
      r.bb_cci_expert>>

ExpertNames == <<"Trend", "MeanReversion", "Momentum", "Value", "BB+CCI">>

FreshWeights == [trend |-> 25, mean_reversion |-> 25, momentum |-> 25, fundamental |-> 25]

Unanimous == \A i \in 1..5 : opinions[i].signal = opinions[1].signal

C14_MiddleBandByOscillator ==
    (/\ last = "analyze_asset" /\ IsRecommendation(rec)
     /\ Get(reading, "bb_position", "middle") = "middle"
     /\ Get(reading, "cci_120", 0) >= -100 /\ Get(reading, "cci_120", 0) <= 100) =>
        rec.bb_cci_expert.signal =
            IF -50 < Get(reading, "cci_120", 0) /\ Get(reading, "cci_120", 0) < 50
            THEN "HOLD"
            ELSE IF Get(reading, "cci_120", 0) <= -50 THEN "WEAK_BUY" ELSE "WEAK_SELL"

(***************************************************************************)
(* What the five experts can say together (advisory.py 197-304, 306-369).  *)
(***************************************************************************)
ExpertScoreSum(r) ==
    SignalScore(Experts(r)[1].signal) + SignalScore(Experts(r)[2].signal)
    + SignalScore(Experts(r)[3].signal) + SignalScore(Experts(r)[4].signal)
    + SignalScore(Experts(r)[5].signal)

\* C15: the composite Signal of analyze_asset is never STRONG_BUY: the
\* Momentum expert says BUY only with rsi > 50 and the Mean-Reversion expert
\* says BUY or STRONG_BUY only with rsi < 40, so the two never do both and
\* the five scores sum to at most 21.
C15_NeverStrongBuy ==
    (last = "analyze_asset" /\ IsRecommendation(rec)) =>
        /\ rec.consensus_signal # "STRONG_BUY"
        /\ ExpertScoreSum(rec) <= 21
        /\ rec.momentum_expert.signal = "BUY" => Get(reading, "rsi", 50) > 50
        /\ rec.mean_rev_expert.signal \in {"BUY", "STRONG_BUY"} => Get(reading, "rsi", 50) < 40
        /\ ~(/\ rec.momentum_expert.signal = "BUY"
             /\ rec.mean_rev_expert.signal \in {"BUY", "STRONG_BUY"})

\* a reading whose momentum is strong and rising but whose rsi is below 40:
\* Mean-Reversion says BUY, Momentum does not, the composite is BUY
C15_OversoldWithMomentum ==
    /\ last = "analyze_asset" /\ IsRecommendation(rec)
    /\ Get(reading, "ytd_return", 0) > 15 /\ Get(reading, "daily_change_pct", 0) > 0
    /\ rec.mean_rev_expert.signal = "BUY"
    /\ rec.momentum_expert.signal = "HOLD"
    /\ rec.bb_cci_expert.signal = "STRONG_BUY"
    /\ rec.consensus_signal = "BUY"

\* C16: the position_size of analyze_asset is never the top bracket
\* "15-20%": no reading gives consensus_score >= 80 together with the low
\* risk tier.
C16_NeverTopBracket ==
    (last = "analyze_asset" /\ IsRecommendation(rec)) =>
        /\ rec.position_size # "15-20%"
        /\ ~(ScoreAtLeast(rec.consensus_score, 80) /\ rec.risk_level = "low")

\* a score of 80 reached with the experts one step too far apart
C16_EightyNotLowRisk ==
    /\ last = "analyze_asset" /\ IsRecommendation(rec)
    /\ ScoreAtLeast(rec.consensus_score, 80)
    /\ rec.risk_level = "medium"
    /\ rec.position_size = "10-15%"

(***************************************************************************)
(* The bracket stop_loss, current_price, take_profit (advisory.py          *)
(* 371-387).  A level is num/200 + eps * 2^-63/25, the price an integer.   *)
(***************************************************************************)
Below(level, price) ==
    level.num < 200 * price \/ (level.num = 200 * price /\ level.eps < 0)
Above(level, price) ==
    level.num > 200 * price \/ (level.num = 200 * price /\ level.eps > 0)
AtPrice(level, price) == level.num = 200 * price /\ level.eps = 0

Analysed == last = "analyze_asset" /\ IsRecommendation(rec)
Volatility == Get(reading, "volatility", 0)
HoldTier == SignalScore(rec.consensus_signal) \in {2, 3}

\* C17: stop_loss < current_price < take_profit is not guaranteed: in the
\* HOLD tier, where stop and target both lie volatility x 2 percent away,
\* the bracket is degenerate (both levels on the price) exactly when the
\* volatility is 0, and is a proper bracket at every positive volatility.
C17_HoldTierBracket ==
    (Analysed /\ HoldTier /\ rec.current_price > 0 /\ Volatility >= 0) =>
        IF Volatility = 0
        THEN AtPrice(rec.stop_loss, rec.current_price)
             /\ AtPrice(rec.take_profit, rec.current_price)
        ELSE Below(rec.stop_loss, rec.current_price)
             /\ Above(rec.take_profit, rec.current_price)

\* a HOLD-tier recommendation whose stop and target are the price itself
C17_DegenerateBracket ==
    /\ Analysed /\ HoldTier /\ rec.current_price > 0
    /\ "volatility" \in DOMAIN reading /\ Volatility = 0
    /\ ~Below(rec.stop_loss, rec.current_price)
    /\ ~Above(rec.take_profit, rec.current_price)

\* C18: with current_price > 0 and volatility >= 0, stop_loss <=
\* current_price <= take_profit, and both are strict when the composite
\* Signal is BUY or stronger.
C18_BracketNeverInverted ==
    (Analysed /\ rec.current_price > 0 /\ Volatility >= 0) =>
        /\ ~Above(rec.stop_loss, rec.current_price)
        /\ ~Below(rec.take_profit, rec.current_price)
        /\ SignalScore(rec.consensus_signal) >= 4 =>
              /\ Below(rec.stop_loss, rec.current_price)
              /\ Above(rec.take_profit, rec.current_price)

\* a composite BUY at volatility 0: only the floors of 5% and 10% keep the
\* levels off the price
C18_BuyAtZeroVolatility ==
    /\ Analysed /\ rec.current_price > 0 /\ Volatility = 0
    /\ rec.consensus_signal = "BUY"
    /\ rec.stop_loss.num * 100 = 95 * 200 * rec.current_price
    /\ rec.take_profit.num * 100 = 110 * 200 * rec.current_price

(***************************************************************************)
(* Reward to risk of a buy (advisory.py 373-374, 383-384).                 *)
(***************************************************************************)
BuyTier == SignalScore(rec.consensus_signal) >= 4

\* take_profit - price - 2 * (price - stop_loss), in units of 2^-63/25,
\* when the parts in 200ths cancel
RewardRiskGap == rec.take_profit.eps + 2 * rec.stop_loss.eps

\* take_profit * 2^-49 in the same units
RoundingAllowance == 2048 * rec.take_profit.num

\* C19 as stated: when the composite score is >= 4 the stop lies
\* max(volatility x 1.5, 5)% below and the target max(volatility x 3, 10)%
\* above the price, so that take_profit - price = 2 x (price - stop_loss)
\* exactly, for every volatility.
C19_RewardExactlyTwiceRisk ==
    (Analysed /\ BuyTier /\ rec.current_price > 0 /\ Volatility >= 0) =>
        /\ rec.take_profit.num - 200 * rec.current_price
              = 2 * (200 * rec.current_price - rec.stop_loss.num)
        /\ RewardRiskGap = 0

\* C19: when the composite score is >= 4 the stop distance is
\* max(volatility x 1.5, 5)% and the target distance max(volatility x 3,
\* 10)%, twice the stop distance; the levels computed from them satisfy
\* take_profit - price = 2 x (price - stop_loss) up to the rounding of the
\* two products, a gap below take_profit x 2^-49.
C19_RewardTwiceRiskUpToRounding ==
    (Analysed /\ BuyTier /\ rec.current_price > 0 /\ Volatility >= 0) =>
        /\ rec.stop_loss.num = rec.current_price * (200 - Max(3 * Volatility, 10))
        /\ rec.take_profit.num = rec.current_price * (200 + 2 * Max(3 * Volatility, 10))
        /\ rec.take_profit.num - 200 * rec.current_price
              = 2 * (200 * rec.current_price - rec.stop_loss.num)
        /\ Abs(RewardRiskGap) <= RoundingAllowance

\* a buy whose two levels are rounded apart
C19_RoundedApart ==
    /\ Analysed /\ BuyTier /\ rec.current_price > 0 /\ Volatility > 0
    /\ 3 * Volatility > 10
    /\ rec.take_profit.num - 200 * rec.current_price
          = 2 * (200 * rec.current_price - rec.stop_loss.num)
    /\ RewardRiskGap # 0

(***************************************************************************)
(* Independence of the experts (advisory.py 79-164, 216-226): two calls    *)
(* of analyze_asset for readings that differ in some fields only.          *)
(***************************************************************************)
DiffersOnlyIn(a, b, fields) ==
    /\ a # b
    /\ \A f \in (DOMAIN a \cup DOMAIN b) \ fields :
          f \in DOMAIN a /\ f \in DOMAIN b /\ a[f] = b[f]

BothAnalysed ==
    last = "analyze_asset_variant" /\ IsRecommendation(rec) /\ IsRecommendation(other_rec)

\* C20: readings that differ only in the band and oscillator fields
\* (bb_position, bb_upper, bb_lower, bb_middle, bb_width, cci_120) get the
\* same Trend, Mean-Reversion, Momentum and Value opinions, and readings
\* that differ only in ma_120 get the same signal from all five experts.
C20_ExpertsIndependent ==
    BothAnalysed =>
        /\ DiffersOnlyIn(reading, other_reading, BandFields) =>
              \A i \in 1..4 : Experts(other_rec)[i] = Experts(rec)[i]
        /\ DiffersOnlyIn(reading, other_reading, {"ma_120"}) =>
              /\ \A i \in 1..5 : Experts(other_rec)[i].signal = Experts(rec)[i].signal
              /\ \A i \in 2..5 : Experts(other_rec)[i] = Experts(rec)[i]

\* the band fields changed, and with them the BB+CCI signal and the
\* composite Signal
C20_BandChangedComposite ==
    /\ BothAnalysed
    /\ DiffersOnlyIn(reading, other_reading, BandFields)
    /\ other_rec.bb_cci_expert.signal # rec.bb_cci_expert.signal
    /\ other_rec.consensus_signal # rec.consensus_signal

(***************************************************************************)
(* The rules of the five experts, one expert at a time (advisory.py        *)
(* 197-304), stated on the fields of the reading.                          *)
(***************************************************************************)
BandPosition == Get(reading, "bb_position", "middle")
Oscillator == Get(reading, "cci_120", 0)

\* C22: the BB+CCI expert gives STRONG_BUY for band position 'lower' with
\* cci_120 < -100; BUY when exactly one of the two holds, whatever the other
\* field is ('upper' with cci_120 < -100, 'lower' with cci_120 > 100); SELL
\* for 'upper' with cci_120 > 100; WEAK_SELL when exactly one of these two
\* holds and neither buy condition does; HOLD for a band position that is
\* none of lower, upper, middle with cci_120 in [-100, 100].
C22_BandOscillatorPriority ==
    Analysed =>
        /\ (BandPosition = "lower" /\ Oscillator < -100) =>
              rec.bb_cci_expert.signal = "STRONG_BUY"
        /\ ((BandPosition = "lower") # (Oscillator < -100)) =>
              rec.bb_cci_expert.signal = "BUY"
        /\ (BandPosition = "upper" /\ Oscillator > 100) =>
              rec.bb_cci_expert.signal = "SELL"
        /\ (/\ BandPosition # "lower" /\ Oscillator >= -100
            /\ (BandPosition = "upper") # (Oscillator > 100)) =>
              rec.bb_cci_expert.signal = "WEAK_SELL"
        /\ (/\ BandPosition \notin {"lower", "upper", "middle"}
            /\ Oscillator >= -100 /\ Oscillator <= 100) =>
              rec.bb_cci_expert.signal = "HOLD"

\* the lower band with an overbought oscillator: the buy rule comes first
C22_LowerBandOverbought ==
    /\ Analysed
    /\ BandPosition = "lower" /\ Oscillator > 100
    /\ rec.bb_cci_expert.signal = "BUY"

Price == Get(reading, "current_price", 0)
Ma10 == Get(reading, "ma_10", Price)
Ma50 == Get(reading, "ma_50", Price)
Rsi == Get(reading, "rsi", 50)
Change1d == Get(reading, "daily_change_pct", 0)
Ytd == Get(reading, "ytd_return", 0)
High52w == Get(reading, "high_52w", Price)
Low52w == Get(reading, "low_52w", Price)

\* dist = (price - MA50) / MA50 x 100, 0 when MA50 is 0, against a percentage
DistBelow(pct) ==
    IF Ma50 = 0 THEN 0 < pct
    ELSE IF Ma50 > 0 THEN 100 * (Price - Ma50) < pct * Ma50
    ELSE 100 * (Price - Ma50) > pct * Ma50
DistAbove(pct) ==
    IF Ma50 = 0 THEN 0 > pct
    ELSE IF Ma50 > 0 THEN 100 * (Price - Ma50) > pct * Ma50
    ELSE 100 * (Price - Ma50) < pct * Ma50

\* range-position = (price - low_52w) / (high_52w - low_52w) x 100, the
\* denominator 1 for a zero-width range, against a percentage
RangeWidth == IF High52w # Low52w THEN High52w - Low52w ELSE 1
RangeBelow(pct) ==
    IF RangeWidth > 0 THEN 100 * (Price - Low52w) < pct * RangeWidth
    ELSE 100 * (Price - Low52w) > pct * RangeWidth
RangeAbove(pct) ==
    IF RangeWidth > 0 THEN 100 * (Price - Low52w) > pct * RangeWidth
    ELSE 100 * (Price - Low52w) < pct * RangeWidth

\* C23: the Mean-Reversion expert gives, first match wins: STRONG_BUY if
\* rsi < 30 and dist < -5; SELL if rsi > 70 and dist > 5; BUY if rsi < 40 and
\* range-position < 30; WEAK_SELL if rsi > 60 and range-position > 70; HOLD
\* otherwise.
C23_MeanReversionRules ==
    Analysed =>
        rec.mean_rev_expert.signal =
            IF Rsi < 30 /\ DistBelow(-5) THEN "STRONG_BUY"
            ELSE IF Rsi > 70 /\ DistAbove(5) THEN "SELL"
            ELSE IF Rsi < 40 /\ RangeBelow(30) THEN "BUY"
            ELSE IF Rsi > 60 /\ RangeAbove(70) THEN "WEAK_SELL"
            ELSE "HOLD"

\* oversold, below the average and low in the range: the first rule wins
C23_OversoldLowInRange ==
    /\ Analysed
    /\ Rsi = 25 /\ DistBelow(-5) /\ Ma50 > 0
    /\ RangeBelow(30)
    /\ rec.mean_rev_expert.signal = "STRONG_BUY"

Ma120 == Get(reading, "ma_120", Ma50)

\* C24: the Trend expert's Signal is, first match wins: HOLD if MA50 = 0; BUY
\* if price > MA10 > MA50 and the 1-day change > 0; SELL if price < MA10 <
\* MA50 and the change < 0; WEAK_BUY if price > MA50; HOLD otherwise.  The
\* 120-period average adds one note to the reasoning, when MA50 and it are
\* not 0, and has no part in the Signal.
C24_TrendRules ==
    Analysed =>
        /\ rec.trend_expert.signal =
              IF Ma50 = 0 THEN "HOLD"
              ELSE IF Price > Ma10 /\ Ma10 > Ma50 /\ Change1d > 0 THEN "BUY"
              ELSE IF Price < Ma10 /\ Ma10 < Ma50 /\ Change1d < 0 THEN "SELL"
              ELSE IF Price > Ma50 THEN "WEAK_BUY"
              ELSE "HOLD"
        /\ Len(rec.trend_expert.reasoning) = IF Ma50 # 0 /\ Ma120 # 0 THEN 2 ELSE 1
        /\ Len(rec.trend_expert.reasoning) = 2 =>
              rec.trend_expert.reasoning[2]
                 \in {"above_120sma", "below_120sma", "near_120sma"}

\* a bullish alignment with the price far below the 120-period average
C24_BuyBelow120Sma ==
    /\ Analysed
    /\ Price > Ma10 /\ Ma10 > Ma50 /\ Change1d > 0
    /\ "ma_120" \in DOMAIN reading /\ 100 * (Price - Ma120) < -5 * Ma120
    /\ rec.trend_expert.signal = "BUY"
    /\ rec.trend_expert.reasoning = <<"bullish_alignment", "below_120sma">>

\* C28: the Momentum expert gives, first match wins: BUY if YTD > 15 and the
\* 1-day change > 0 and rsi > 50; WEAK_SELL if YTD < -10 and the 1-day change
\* < 0; WEAK_BUY if |YTD| < 5 and volatility < 15; HOLD otherwise.
C28_MomentumRules ==
    Analysed =>
        rec.momentum_expert.signal =
            IF Ytd > 15 /\ Change1d > 0 /\ Rsi > 50 THEN "BUY"
            ELSE IF Ytd < -10 /\ Change1d < 0 THEN "WEAK_SELL"
            ELSE IF -5 < Ytd /\ Ytd < 5 /\ Volatility < 15 THEN "WEAK_BUY"
            ELSE "HOLD"

\* a deep loss for the year on a day that is not down, at low volatility:
\* none of the three rules applies
C28_LossWithoutDownDay ==
    /\ Analysed
    /\ Ytd < -10 /\ Change1d >= 0 /\ Volatility < 15
    /\ rec.momentum_expert.signal = "HOLD"

\* C29: the Value expert gives, first match wins: BUY if range-position < 25
\* and volatility < 20; WEAK_SELL if range-position > 80; WEAK_BUY if
\* range-position < 50, which takes in range-position < 25 at volatility >=
\* 20; HOLD otherwise; range-position is (price - low_52w) / (high_52w -
\* low_52w) x 100 with the denominator 1 when high_52w = low_52w.
C29_ValueRules ==
    Analysed =>
        rec.fundamental_expert.signal =
            IF RangeBelow(25) /\ Volatility < 20 THEN "BUY"
            ELSE IF RangeAbove(80) THEN "WEAK_SELL"
            ELSE IF RangeBelow(50) THEN "WEAK_BUY"
            ELSE "HOLD"

\* low in the range but volatile: the third rule, not the first
C29_ValueZoneTooVolatile ==
    /\ Analysed
    /\ RangeBelow(25) /\ Volatility >= 20
    /\ rec.fundamental_expert.signal = "WEAK_BUY"

(***************************************************************************)
(* The reasoning branch and the risk tier of _calculate_consensus          *)
(* (advisory.py 315, 332-351).                                             *)
(***************************************************************************)
Scores == [i \in 1..5 |-> SignalScore(opinions[i].signal)]
BuyCount == Cardinality({i \in 1..5 : Scores[i] >= 3})
SellCount == Cardinality({i \in 1..5 : Scores[i] <= 1})
Disagreement ==
    CHOOSE d \in 0..5 : /\ \E i, j \in 1..5 : Scores[i] - Scores[j] = d
                        /\ \A i, j \in 1..5 : Scores[i] - Scores[j] <= d

\* C25: the reasoning is the buy-count branch when at least 3 of the 5
\* experts score >= 3, whatever the number scoring <= 1; otherwise the
\* sell-count branch when at least 2 score <= 1; otherwise the high-consensus
\* branch when the disagreement is <= 1; otherwise the experts-diverge
\* branch, which cites the disagreement.
C25_ReasoningBranch ==
    last = "calculate_consensus" =>
        consensus.reason =
            IF BuyCount >= 3 THEN <<"buy_count", BuyCount, Disagreement>>
            ELSE IF SellCount >= 2 THEN <<"sell_count", SellCount>>
            ELSE IF Disagreement <= 1 THEN <<"high_consensus">>
            ELSE <<"experts_diverge", Disagreement>>

\* three buy-leaning experts against two sell-leaning ones
C25_ThreeBuyTwoSell ==
    /\ last = "calculate_consensus"
    /\ BuyCount = 3 /\ SellCount = 2
    /\ consensus.reason[1] = "buy_count"

\* C26: the risk tier is a function of the disagreement max - min of the five
\* scores alone: high when it is >= 3, medium when it is 2, low when it is
\* <= 1.
C26_RiskByDisagreement ==
    last = "calculate_consensus" =>
        consensus.risk = IF Disagreement >= 3 THEN "high"
                         ELSE IF Disagreement = 2 THEN "medium"
                         ELSE "low"

\* four STRONG_BUY and one HOLD: a score of 88 in the high tier
C26_HighTierAtThree ==
    /\ last = "calculate_consensus"
    /\ Disagreement = 3
    /\ consensus.risk = "high"
    /\ ScoreAtLeast(consensus.consensus_100, 88)

\* ---------------------------------------------------------------------------
\* Position size brackets
\* ---------------------------------------------------------------------------

Sized == last = "calculate_position_size"

\* the bracket the five rules give, first match winning
Bracket(score, risk) ==
    IF ScoreAtLeast(score, 80) /\ risk = "low" THEN "15-20%"
    ELSE IF ScoreAtLeast(score, 70) THEN "10-15%"
    ELSE IF ScoreAtLeast(score, 60) THEN "5-10%"
    ELSE IF ScoreAtLeast(score, 40) THEN "3-5% (watch)"
    ELSE "0-2% (probe)"

\* C27: the position size is 15-20% for a score of at least 80 with low risk,
\* else 10-15% from 70 (so also from 80 when the risk is medium or high), else
\* 5-10% from 60, else the watch position from 40, else the probe position; the
\* volatility passed in never changes it, and a recommendation carries the
\* bracket of its own score and risk tier.
C27_PositionSizeBrackets ==
    /\ Sized =>
          /\ sizing.position_size = Bracket(sizing.score, sizing.risk)
          /\ \A v \in Volatilities :
                calculate_position_size(sizing.score, sizing.risk, v) = sizing.position_size
          /\ (ScoreAtLeast(sizing.score, 80) /\ sizing.risk # "low")
                => sizing.position_size = "10-15%"
    /\ (Analysed /\ IsRecommendation(rec))
          => rec.position_size = Bracket(rec.consensus_score, rec.risk_level)

\* a score of at least 80 with low risk on the most volatile instrument gets
\* the top bracket
C27_TopBracketAtHighVolatility ==
    /\ Sized
    /\ ScoreAtLeast(sizing.score, 80)
    /\ sizing.risk = "low"
    /\ sizing.volatility = 60
    /\ sizing.position_size = "15-20%"

\* ---------------------------------------------------------------------------
\* The category of a recommendation of analyze_all
\* ---------------------------------------------------------------------------

\* the outer key under which the input holds the instrument
OuterKey(sym) == Entries(data)[EntryIndex(sym)].category

\* the reading the input holds for the instrument
InfoOf(sym) == Entries(data)[EntryIndex(sym)].info

\* C30: every recommendation analyze_all returns has as its category the outer
\* key under which its instrument stands in the input, whatever category field
\* the reading itself carries, and its rank_in_category counts the
\* recommendations of that outer key up to and including it.
C30_CategoryIsOuterKey ==
    Ranked =>
       \A i \in DOMAIN recommendations :
          /\ recommendations[i].category = OuterKey(recommendations[i].symbol)
          /\ recommendations[i].rank_in_category =
                Cardinality({j \in 1..i : OuterKey(recommendations[j].symbol)
                                            = OuterKey(recommendations[i].symbol)})

\* a reading filed under us_stocks says precious_metals, a category that holds
\* a recommendation of its own
C30_ReadingNamesOtherCategory ==
    /\ Ranked
    /\ \E i, j \in DOMAIN recommendations :
          /\ "category" \in DOMAIN InfoOf(recommendations[i].symbol)
          /\ InfoOf(recommendations[i].symbol).category = "precious_metals"
          /\ recommendations[i].category = "us_stocks"
          /\ recommendations[j].category = "precious_metals"
          /\ j < i
          /\ recommendations[i].rank_in_category = 1

\* ---------------------------------------------------------------------------
\* analyze_all on the same instruments in another order
\* ---------------------------------------------------------------------------

Reranked == last = "analyze_all_reordered"

\* what the aggregator and the sizing rules gave an instrument
ConsensusOutputs(r) ==
    [symbol |-> r.symbol, category |-> r.category, experts |-> Experts(r),
     consensus_signal |-> r.consensus_signal, consensus_score |-> r.consensus_score,
     consensus_reasoning |-> r.consensus_reasoning, risk_level |-> r.risk_level,
     position_size |-> r.position_size, stop_loss |-> r.stop_loss,
     take_profit |-> r.take_profit]

\* no other recommendation of the list has the score of the i-th
UniqueScore(recs, i) ==
    \A j \in DOMAIN recs : j # i => ~ScoreEq(recs[j].consensus_score, recs[i].consensus_score)

\* C21: analyze_all on the same instruments, readings and categories in another
\* order returns for every instrument the same consensus outputs, and for every
\* instrument whose consensus_score no other instrument shares the same
\* overall_rank and rank_in_category.
C21_OrderOnlyBreaksTies ==
    Reranked =>
       /\ ~aborted /\ ~reordered.raised
       /\ Len(reordered.list) = Len(recommendations)
       /\ \A i \in DOMAIN recommendations :
             \E j \in DOMAIN reordered.list :
                /\ ConsensusOutputs(reordered.list[j]) = ConsensusOutputs(recommendations[i])
                /\ UniqueScore(recommendations, i) =>
                      /\ reordered.list[j].overall_rank = recommendations[i].overall_rank
                      /\ reordered.list[j].rank_in_category
                            = recommendations[i].rank_in_category

\* two instruments with the same score change places while the third, alone
\* with its score, stays last
C21_TieSwappedUniqueKept ==
    /\ Reranked
    /\ Len(recommendations) = 3
    /\ ScoreEq(recommendations[1].consensus_score, recommendations[2].consensus_score)
    /\ UniqueScore(recommendations, 3)
    /\ reordered.list[1].symbol = recommendations[2].symbol
    /\ reordered.list[2].symbol = recommendations[1].symbol
    /\ reordered.list[3].symbol = recommendations[3].symbol
    /\ reordered.list[3].overall_rank = 3

====
